---- MODULE Spec2Model ----
(***************************************************************************)
(* Model of the expense tracker in src/app.py: two tables (User, Expense), *)
(* the flask-login session of each browser, the wall clock, and one action *)
(* per route handler.  A handler runs as one step: it reads the form, runs *)
(* its checks in source order, commits at most once and answers.           *)
(*                                                                         *)
(* Strings are sequences of one-character strings, so that str.strip(),    *)
(* float() and strptime() are computed and not assumed.  Amounts are       *)
(* binary floating point numbers (db.Float, float()): every stored amount  *)
(* and every partial sum is rounded to MantBits significant bits, ties to  *)
(* even.  MantBits stands for the 53 bits of a binary64; amounts are       *)
(* counted in units of the smallest step the model represents.             *)
(*                                                                         *)
(* Four specifications share the handlers: Spec (accounts and sessions,    *)
(* from an empty database), SpecExp (the expenses of two registered        *)
(* users), SpecDate (their dates, as days pass) and SpecSum (their sums).  *)
(***************************************************************************)
EXTENDS Integers, Sequences, FiniteSets, TLC

VARIABLES
    users,      \* the user table: rows [id, username, password]
    expenses,   \* the expense table: rows [id, title, amount, category, date, note, user_id]
    session,    \* per browser, the user id its session cookie carries, or NoUser
    clock,      \* days since the server started
    req,        \* the last request
    resp,       \* the response to the last request
    loginHist,  \* history: the browser has logged in and not logged out since
    signedUp    \* history: the <<username, password>> pairs of the signups that succeeded

vars == <<users, expenses, session, clock, req, resp, loginHist, signedUp>>

(* ------------------------------ bounds -------------------------------- *)

\* Rows of the expense table in the full specification (Spec).
MaxExpensesFull == 1
\* Rows of the expense table in the expense specification (SpecExp).
MaxExpenses == 2
\* Rows of the expense table in the date specification (SpecDate).
MaxExpensesDate == 2
\* Rows of the expense table in the summation specification (SpecSum).
MaxExpensesSum == 3
\* Days the clock may advance.
MaxTicks == 1
\* Significand width of the modelled float (53 in the binary64 of the code).
MantBits == 3

(* ------------------------------ strings ------------------------------- *)

Whitespace == {" "}

RECURSIVE LStrip(_)
LStrip(s) ==
    IF s # <<>> /\ Head(s) \in Whitespace THEN LStrip(Tail(s)) ELSE s

RECURSIVE RStrip(_)
RStrip(s) ==
    IF s # <<>> /\ s[Len(s)] \in Whitespace
    THEN RStrip(SubSeq(s, 1, Len(s) - 1))
    ELSE s

\* Strip as a handler that forgot .strip() would read the field.
Strip_Forgotten(s) == s

\* str.strip()
Strip(s) == RStrip(LStrip(s))

Digits == <<"0", "1", "2", "3", "4", "5", "6", "7", "8", "9">>

IsDigit(c) == \E i \in 1..10 : Digits[i] = c

DigitVal(c) == (CHOOSE i \in 1..10 : Digits[i] = c) - 1

AllDigits(s) == s # <<>> /\ \A i \in 1..Len(s) : IsDigit(s[i])

RECURSIVE DecValue(_)
DecValue(s) ==
    IF s = <<>> THEN 0
    ELSE 10 * DecValue(SubSeq(s, 1, Len(s) - 1)) + DigitVal(s[Len(s)])

(* ------------------------------- floats ------------------------------- *)

Pow2[n \in Nat] == IF n = 0 THEN 1 ELSE 2 * Pow2[n - 1]

\* The spacing of the floats around x >= 0: the least power of two q, from q
\* up, with x < 2^MantBits * q.
UlpFrom[x \in Nat, q \in Nat] ==
    IF x < Pow2[MantBits] * q THEN q ELSE UlpFrom[x, 2 * q]

RoundAbs[x \in Nat] ==
    LET q  == UlpFrom[x, 1]
        m  == x \div q
        lo == m * q
        r  == x - lo
    IN  IF 2 * r < q THEN lo
        ELSE IF 2 * r > q THEN lo + q
        ELSE IF m % 2 = 0 THEN lo ELSE lo + q

\* Round to nearest, ties to even.
RoundFloat[x \in Int] == IF x < 0 THEN 0 - RoundAbs[0 - x] ELSE RoundAbs[x]

FloatAdd(a, b) == RoundFloat[a + b]

\* float(amount): surrounding whitespace is ignored, an optional sign, then
\* digits or the literal nan; anything else raises ValueError.
ParseFloat(s) ==
    LET t    == Strip(s)
        neg  == t # <<>> /\ Head(t) = "-"
        body == IF t # <<>> /\ Head(t) \in {"-", "+"} THEN Tail(t) ELSE t
    IN  IF body = <<"n", "a", "n">>
        THEN [ok |-> TRUE, nan |-> TRUE, val |-> 0]
        ELSE IF AllDigits(body)
        THEN [ok |-> TRUE, nan |-> FALSE,
              val |-> RoundFloat[IF neg THEN 0 - DecValue(body) ELSE DecValue(body)]]
        ELSE [ok |-> FALSE, nan |-> FALSE, val |-> 0]

(* -------------------------------- dates ------------------------------- *)

IsLeap(y) == (y % 4 = 0 /\ y % 100 # 0) \/ y % 400 = 0

DaysInMonth(y, m) ==
    IF m = 2 THEN (IF IsLeap(y) THEN 29 ELSE 28)
    ELSE IF m \in {4, 6, 9, 11} THEN 30 ELSE 31

\* Positions of the separator c in s.
SepPositions(s, c) == {i \in 1..Len(s) : s[i] = c}

\* datetime.strptime(date_str, '%Y-%m-%d').date(): four digits, one or two
\* digits, one or two digits, and a day that exists; otherwise an exception.
ParseDate(s) ==
    LET seps == SepPositions(s, "-")
        bad  == [ok |-> FALSE, date |-> [y |-> 0, m |-> 0, d |-> 0]]
    IN  IF Cardinality(seps) # 2 THEN bad
        ELSE LET p1 == CHOOSE i \in seps : \A j \in seps : i <= j
                 p2 == CHOOSE i \in seps : \A j \in seps : i >= j
                 fy == SubSeq(s, 1, p1 - 1)
                 fm == SubSeq(s, p1 + 1, p2 - 1)
                 fd == SubSeq(s, p2 + 1, Len(s))
             IN  IF /\ AllDigits(fy) /\ Len(fy) = 4
                    /\ AllDigits(fm) /\ Len(fm) \in 1..2
                    /\ AllDigits(fd) /\ Len(fd) \in 1..2
                    /\ DecValue(fy) >= 1
                    /\ DecValue(fm) \in 1..12
                    /\ DecValue(fd) \in 1..DaysInMonth(DecValue(fy), DecValue(fm))
                 THEN [ok |-> TRUE,
                       date |-> [y |-> DecValue(fy), m |-> DecValue(fm),
                                 d |-> DecValue(fd)]]
                 ELSE bad

NextDay(dt) ==
    IF dt.d < DaysInMonth(dt.y, dt.m) THEN [dt EXCEPT !.d = dt.d + 1]
    ELSE IF dt.m < 12 THEN [y |-> dt.y, m |-> dt.m + 1, d |-> 1]
    ELSE [y |-> dt.y + 1, m |-> 1, d |-> 1]

\* The day the server starts on.
StartDate == [y |-> 2024, m |-> 1, d |-> 31]

RECURSIVE AddDays(_, _)
AddDays(dt, n) == IF n = 0 THEN dt ELSE AddDays(NextDay(dt), n - 1)

\* datetime.utcnow().date()
Today == AddDays(StartDate, clock)

DateLess(a, b) ==
    \/ a.y < b.y
    \/ a.y = b.y /\ a.m < b.m
    \/ a.y = b.y /\ a.m = b.m /\ a.d < b.d

\* strftime('%Y-%m', date)
YearMonth(dt) == <<dt.y, dt.m>>

MonthLess(a, b) == a[1] < b[1] \/ (a[1] = b[1] /\ a[2] < b[2])

(* ------------------------------- inputs ------------------------------- *)

Sessions == {"s1", "s2"}

\* session[s] when the browser s carries no user id.
NoUser == 0

UsernameInputs == {<<>>, <<" ">>, <<"a">>, <<"a", " ">>, <<"b">>}

PasswordInputs == {<<>>, <<"p">>, <<"q">>}

SignupForms == [username : UsernameInputs, password : PasswordInputs]

TitleInputs == {<<>>, <<" ">>, <<"t">>}

AmountInputs == {<<>>, <<"x">>, <<"n", "a", "n">>, <<"8">>, <<" ", "8">>}

CategoryInputs == {<<>>, <<"F">>, <<"T", " ">>}

IsoJan31 == <<"2", "0", "2", "4", "-", "0", "1", "-", "3", "1">>

ShortJan31 == <<"2", "0", "2", "4", "-", "1", "-", "3", "1">>

Feb30 == <<"2", "0", "2", "4", "-", "0", "2", "-", "3", "0">>

NotADate == <<"n", "o", "t", "-", "a", "-", "d", "a", "t", "e">>

DateInputs == {IsoJan31, ShortJan31, Feb30, NotADate, <<>>}

NoteInputs == {<<"n", " ">>}

\* A form the handler accepts.
GoodForm ==
    [title |-> <<"t">>, amount |-> <<"8">>, category |-> <<"F">>,
     date |-> NotADate, note |-> <<"n", " ">>]

\* Add-expense forms: the accepted form with each of its fields varied in
\* turn, and forms with several fields at fault.
ExpenseForms ==
    {[GoodForm EXCEPT !.title = t] : t \in TitleInputs}
    \cup {[GoodForm EXCEPT !.amount = a] : a \in AmountInputs}
    \cup {[GoodForm EXCEPT !.category = c] : c \in CategoryInputs}
    \cup {[GoodForm EXCEPT !.date = d] : d \in DateInputs}
    \cup {[GoodForm EXCEPT !.title = <<>>, !.amount = a, !.category = c] :
             a \in {<<"x">>, <<"n", "a", "n">>}, c \in {<<>>, <<"F">>}}

\* The forms of the full specification: one that inserts, one that does not.
BasicForms == {GoodForm, [GoodForm EXCEPT !.amount = <<"x">>]}

\* The forms of the date specification: every date, and a refused amount.
DateForms ==
    {[GoodForm EXCEPT !.date = d] : d \in DateInputs}
    \cup {[GoodForm EXCEPT !.amount = <<"x">>, !.date = IsoJan31]}

\* The forms of the summation specification: amounts whose sums round.
SumForms ==
    {[GoodForm EXCEPT !.date = IsoJan31],
     [GoodForm EXCEPT !.amount = <<"1">>, !.category = <<"T", " ">>,
                      !.date = IsoJan31]}

\* Login attempts of the expense specifications.
LoginForms == [username : {<<"a">>, <<"b">>}, password : {<<"p">>, <<"q">>}]

(* ------------------------------- tables ------------------------------- *)

\* The rowid SQLite gives a new row of an INTEGER PRIMARY KEY table.
NextId(table) ==
    IF table = {} THEN 1
    ELSE (CHOOSE i \in {r.id : r \in table} : \A r \in table : r.id <= i) + 1

\* bcrypt.generate_password_hash(password)
Hash(password) == <<"$2b$">> \o password

\* CheckHash comparing the stored hash with the password itself.
CheckHash_Plain(pwHash, password) == pwHash = password

\* bcrypt.check_password_hash(pw_hash, password)
CheckHash(pwHash, password) == pwHash = Hash(password)

\* User.query.filter_by(username=username).first()
UsersNamed(username) == {u \in users : u.username = username}

\* load_user: the user a session's id resolves to.
IsAuthenticated(s) == \E u \in users : u.id = session[s]

\* current_user.id
CurrentUserId(s) == session[s]

\* The sequences that list every element of the finite set S once.
Arrangements(S) ==
    LET n == Cardinality(S)
    IN  {f \in [1..n -> S] : \A i, j \in 1..n : i # j => f[i] # f[j]}

\* The rows in the order a table scan visits them: by rowid.
ScanOrder(S) ==
    CHOOSE f \in Arrangements(S) :
        \A i, j \in 1..Len(f) : i < j => f[i].id < f[j].id

\* func.sum over the amounts in scan order: NULL over no rows, else the
\* running float sum.
FloatSum[amounts \in Seq(Int)] ==
    IF amounts = <<>> THEN 0
    ELSE FloatAdd(FloatSum[SubSeq(amounts, 1, Len(amounts) - 1)],
                  amounts[Len(amounts)])

SqlSum(S) ==
    LET rows == ScanOrder(S)
    IN  [null |-> S = {},
         val  |-> FloatSum[[i \in 1..Len(rows) |-> rows[i].amount]]]

\* .filter(Expense.user_id == uid)
ExpensesOf(uid) == {e \in expenses : e.user_id = uid}

\* db.session.query(func.sum(Expense.amount)).filter(...).scalar() or 0.0
TotalFor(uid) ==
    LET r == SqlSum(ExpensesOf(uid))
    IN  IF r.null \/ r.val = 0 THEN 0 ELSE r.val

\* query(Expense.category, func.sum(Expense.amount)) ... group_by(category)
CategorySummary(uid) ==
    {<<c, SqlSum({e \in ExpensesOf(uid) : e.category = c}).val>> :
        c \in {e.category : e \in ExpensesOf(uid)}}

\* query(strftime('%Y-%m', date), func.sum(amount)) ... group_by ... order_by
MonthlySummary(uid) ==
    LET groups ==
          {<<ym, SqlSum({e \in ExpensesOf(uid) : YearMonth(e.date) = ym}).val>> :
              ym \in {YearMonth(e.date) : e \in ExpensesOf(uid)}}
    IN  CHOOSE f \in Arrangements(groups) :
            \A i, j \in 1..Len(f) : i < j => MonthLess(f[i][1], f[j][1])

\* Expense.query.filter_by(user_id=...).order_by(Expense.date.desc()).all():
\* rows of one date come in an order the query does not fix.
ExpenseLists(uid) ==
    {f \in Arrangements(ExpensesOf(uid)) :
        \A i, j \in 1..Len(f) : i < j => ~DateLess(f[i].date, f[j].date)}

(* ------------------------- requests and responses -------------------- *)

NoForm == [kind |-> "none"]

\* A request: the endpoint, the method, the browser, the form and the id in
\* the path.
Request(op, method, s, form, id) ==
    [op |-> op, method |-> method, sid |-> s, form |-> form, id |-> id]

NoRequest == Request("", "", "", NoForm, 0)


NoBody == [kind |-> "none"]

Redirect(op, method, endpoint, msg) ==
    [op |-> op, method |-> method, status |-> 302, target |-> endpoint,
     flash |-> msg, body |-> NoBody]

Render(op, method, template, msg, body) ==
    [op |-> op, method |-> method, status |-> 200, target |-> template,
     flash |-> msg, body |-> body]

Abort(op, method, code) ==
    [op |-> op, method |-> method, status |-> code, target |-> "",
     flash |-> "", body |-> NoBody]

\* @login_required with login_manager.login_view = 'login'
Unauthorized(op, method) ==
    Redirect(op, method, "login", "Please log in to access this page.")

(* ------------------------------- handlers ----------------------------- *)

\* GET /
Index(s) ==
    /\ req' = Request("index", "GET", s, NoForm, 0)
    /\ resp' = IF IsAuthenticated(s)
               THEN Redirect("index", "GET", "dashboard", "")
               ELSE Redirect("index", "GET", "login", "")
    /\ UNCHANGED <<users, expenses, session, clock, loginHist, signedUp>>

\* GET /signup
SignupGet(s) ==
    /\ req' = Request("signup", "GET", s, NoForm, 0)
    /\ resp' = Render("signup", "GET", "signup.html", "", NoBody)
    /\ UNCHANGED <<users, expenses, session, clock, loginHist, signedUp>>

\* SignupPost without the lookup of the username: the second row is inserted.
SignupPost_NoLookup(s, f) ==
    LET username == Strip(f.username)
        password == f.password
    IN  /\ req' = Request("signup", "POST", s, f, 0)
        /\ IF username = <<>> \/ password = <<>>
           THEN /\ resp' = Redirect("signup", "POST", "signup", "Fill all fields")
                /\ UNCHANGED <<users, signedUp>>
           ELSE /\ users' = users \cup
                        {[id |-> NextId(users), username |-> username,
                          password |-> Hash(password)]}
                /\ signedUp' = signedUp \cup {<<username, password>>}
                /\ resp' = Redirect("signup", "POST", "login",
                                    "Account created. Please log in.")
        /\ UNCHANGED <<expenses, session, clock, loginHist>>

\* POST /signup
SignupPost(s, f) ==
    LET username == Strip(f.username)
        password == f.password
    IN  /\ req' = Request("signup", "POST", s, f, 0)
        /\ IF username = <<>> \/ password = <<>>
           THEN /\ resp' = Redirect("signup", "POST", "signup", "Fill all fields")
                /\ UNCHANGED <<users, signedUp>>
           ELSE IF UsersNamed(username) # {}
           THEN /\ resp' = Redirect("signup", "POST", "signup",
                                    "Username already exists")
                /\ UNCHANGED <<users, signedUp>>
           ELSE /\ users' = users \cup
                        {[id |-> NextId(users), username |-> username,
                          password |-> Hash(password)]}
                /\ signedUp' = signedUp \cup {<<username, password>>}
                /\ resp' = Redirect("signup", "POST", "login",
                                    "Account created. Please log in.")
        /\ UNCHANGED <<expenses, session, clock, loginHist>>

\* GET /login
LoginGet(s) ==
    /\ req' = Request("login", "GET", s, NoForm, 0)
    /\ resp' = Render("login", "GET", "login.html", "", NoBody)
    /\ UNCHANGED <<users, expenses, session, clock, loginHist, signedUp>>

\* POST /login
LoginPost(s, f) ==
    LET username == Strip(f.username)
        password == f.password
        found    == {u \in UsersNamed(username) : CheckHash(u.password, password)}
    IN  /\ req' = Request("login", "POST", s, f, 0)
        /\ IF found # {}
           THEN LET user == CHOOSE u \in found : TRUE
                IN  /\ session' = [session EXCEPT ![s] = user.id]
                    /\ loginHist' = [loginHist EXCEPT ![s] = TRUE]
                    /\ resp' = Redirect("login", "POST", "dashboard", "")
           ELSE /\ resp' = Render("login", "POST", "login.html",
                                  "Invalid credentials", NoBody)
                /\ UNCHANGED <<session, loginHist>>
        /\ UNCHANGED <<users, expenses, clock, signedUp>>

\* Logout without logout_user(): the session keeps its user id.
Logout_KeepsSession(s) ==
    /\ req' = Request("logout", "GET", s, NoForm, 0)
    /\ IF ~IsAuthenticated(s)
       THEN /\ resp' = Unauthorized("logout", "GET")
            /\ UNCHANGED <<session, loginHist>>
       ELSE /\ session' = session
            /\ loginHist' = [loginHist EXCEPT ![s] = FALSE]
            /\ resp' = Redirect("logout", "GET", "login", "")
    /\ UNCHANGED <<users, expenses, clock, signedUp>>

\* GET /logout
Logout(s) ==
    /\ req' = Request("logout", "GET", s, NoForm, 0)
    /\ IF ~IsAuthenticated(s)
       THEN /\ resp' = Unauthorized("logout", "GET")
            /\ UNCHANGED <<session, loginHist>>
       ELSE /\ session' = [session EXCEPT ![s] = NoUser]
            /\ loginHist' = [loginHist EXCEPT ![s] = FALSE]
            /\ resp' = Redirect("logout", "GET", "login", "")
    /\ UNCHANGED <<users, expenses, clock, signedUp>>

\* The fields of the add-expense form as the handler reads them.
TitleOf(f) == Strip(f.title)

CategoryOf(f) == Strip(f.category)

NoteOf(f) == Strip(f.note)

\* DateOf with the fallback date taken once, when the server starts.
DateOf_AtStart(f) ==
    LET parsed == ParseDate(f.date)
    IN  IF parsed.ok THEN parsed.date ELSE StartDate

\* The date the handler stores: the parsed one, else today's.
DateOf(f) ==
    LET parsed == ParseDate(f.date)
    IN  IF parsed.ok THEN parsed.date ELSE Today

\* NewExpense owned by the first user of the table instead of current_user.
NewExpense_FirstUser(s, f, amount) ==
    [id |-> NextId(expenses), title |-> TitleOf(f), amount |-> amount,
     category |-> CategoryOf(f), date |-> DateOf(f), note |-> NoteOf(f),
     user_id |-> CHOOSE i \in {u.id : u \in users} : \A u \in users : i <= u.id]

\* Expense(..., owner=current_user)
NewExpense(s, f, amount) ==
    [id |-> NextId(expenses), title |-> TitleOf(f), amount |-> amount,
     category |-> CategoryOf(f), date |-> DateOf(f), note |-> NoteOf(f),
     user_id |-> CurrentUserId(s)]

\* POST /dashboard
DashboardPost(s, f) ==
    LET amount == ParseFloat(f.amount)
    IN  /\ req' = Request("dashboard", "POST", s, f, 0)
        /\ IF ~IsAuthenticated(s)
           THEN /\ resp' = Unauthorized("dashboard", "POST")
                /\ expenses' = expenses
           ELSE IF TitleOf(f) = <<>> \/ f.amount = <<>> \/ CategoryOf(f) = <<>>
           THEN /\ resp' = Redirect("dashboard", "POST", "dashboard",
                                    "Please fill required fields")
                /\ expenses' = expenses
           ELSE IF ~amount.ok
           THEN /\ resp' = Redirect("dashboard", "POST", "dashboard",
                                    "Invalid amount")
                /\ expenses' = expenses
           ELSE IF amount.nan
           THEN \* NaN is bound as NULL and amount is NOT NULL: the commit
                \* raises IntegrityError, which nothing catches.
                /\ resp' = Abort("dashboard", "POST", 500)
                /\ expenses' = expenses
           ELSE /\ expenses' = expenses \cup {NewExpense(s, f, amount.val)}
                /\ resp' = Redirect("dashboard", "POST", "dashboard",
                                    "Expense added")
        /\ UNCHANGED <<users, session, clock, loginHist, signedUp>>

\* GET /dashboard
DashboardGet(s) ==
    /\ req' = Request("dashboard", "GET", s, NoForm, 0)
    /\ IF ~IsAuthenticated(s)
       THEN resp' = Unauthorized("dashboard", "GET")
       ELSE \E lst \in ExpenseLists(CurrentUserId(s)) :
                resp' = Render("dashboard", "GET", "dashboard.html", "",
                               [kind |-> "dashboard",
                                expenses |-> lst,
                                total |-> TotalFor(CurrentUserId(s)),
                                cat_summary |-> CategorySummary(CurrentUserId(s)),
                                monthly |-> MonthlySummary(CurrentUserId(s))])
    /\ UNCHANGED <<users, expenses, session, clock, loginHist, signedUp>>

\* DeleteExpense without the comparison of e.user_id with current_user.id.
DeleteExpense_NoOwnerCheck(s, expense_id) ==
    LET found == {e \in expenses : e.id = expense_id}
    IN  /\ req' = Request("delete", "POST", s, NoForm, expense_id)
        /\ IF ~IsAuthenticated(s)
           THEN /\ resp' = Unauthorized("delete", "POST")
                /\ expenses' = expenses
           ELSE IF found = {}
           THEN /\ resp' = Abort("delete", "POST", 404)
                /\ expenses' = expenses
           ELSE /\ expenses' = expenses \ found
                /\ resp' = Redirect("delete", "POST", "dashboard", "Deleted")
        /\ UNCHANGED <<users, session, clock, loginHist, signedUp>>

\* POST /delete/<expense_id>
DeleteExpense(s, expense_id) ==
    LET found == {e \in expenses : e.id = expense_id}
    IN  /\ req' = Request("delete", "POST", s, NoForm, expense_id)
        /\ IF ~IsAuthenticated(s)
           THEN /\ resp' = Unauthorized("delete", "POST")
                /\ expenses' = expenses
           ELSE IF found = {}
           THEN /\ resp' = Abort("delete", "POST", 404)
                /\ expenses' = expenses
           ELSE LET e == CHOOSE r \in found : TRUE
                IN  IF e.user_id # CurrentUserId(s)
                    THEN /\ resp' = Redirect("delete", "POST", "dashboard",
                                             "Not allowed")
                         /\ expenses' = expenses
                    ELSE /\ expenses' = expenses \ {e}
                         /\ resp' = Redirect("delete", "POST", "dashboard",
                                             "Deleted")
        /\ UNCHANGED <<users, session, clock, loginHist, signedUp>>

\* GET /chart-data
ChartData(s) ==
    /\ req' = Request("chart_data", "GET", s, NoForm, 0)
    /\ IF ~IsAuthenticated(s)
       THEN resp' = Unauthorized("chart_data", "GET")
       ELSE resp' = Render("chart_data", "GET", "json", "",
                           [kind |-> "chart",
                            by_category |-> CategorySummary(CurrentUserId(s)),
                            monthly |-> MonthlySummary(CurrentUserId(s))])
    /\ UNCHANGED <<users, expenses, session, clock, loginHist, signedUp>>

\* A day passes.
Tick ==
    /\ clock < MaxTicks
    /\ clock' = clock + 1
    /\ UNCHANGED <<users, expenses, session, req, resp, loginHist, signedUp>>

(* --------------------------- specifications --------------------------- *)

\* DashboardPost(s, f) would insert a row.
WouldInsert(s, f) ==
    /\ IsAuthenticated(s)
    /\ TitleOf(f) # <<>> /\ f.amount # <<>> /\ CategoryOf(f) # <<>>
    /\ ParseFloat(f.amount).ok /\ ~ParseFloat(f.amount).nan

\* The model stops inserting once the next expense id would pass cap (so the
\* table holds at most cap rows); every other request stays enabled.
Room(cap, s, f) == NextId(expenses) <= cap \/ ~WouldInsert(s, f)

NoResponse == Abort("", "", 0)

\* db.create_all() on an empty database; no browser has a session.
Init ==
    /\ users = {}
    /\ expenses = {}
    /\ session = [s \in Sessions |-> NoUser]
    /\ clock = 0
    /\ req = NoRequest
    /\ resp = NoResponse
    /\ loginHist = [s \in Sessions |-> FALSE]
    /\ signedUp = {}

Next ==
    \/ \E s \in Sessions : Index(s)
    \/ \E s \in Sessions : SignupGet(s)
    \/ \E s \in Sessions, f \in SignupForms : SignupPost(s, f)
    \/ \E s \in Sessions : LoginGet(s)
    \/ \E s \in Sessions, f \in SignupForms : LoginPost(s, f)
    \/ \E s \in Sessions : Logout(s)
    \/ \E s \in Sessions, f \in BasicForms :
          Room(MaxExpensesFull, s, f) /\ DashboardPost(s, f)
    \/ \E s \in Sessions : DashboardGet(s)
    \/ \E s \in Sessions, id \in 1..(MaxExpensesFull + 1) : DeleteExpense(s, id)
    \/ \E s \in Sessions : ChartData(s)

\* Accounts and sessions, from an empty database.
Spec == Init /\ [][Next]_vars

\* The accounts of the expense specifications: a/p and b/q have signed up.
Registered ==
    {[id |-> 1, username |-> <<"a">>, password |-> Hash(<<"p">>)],
     [id |-> 2, username |-> <<"b">>, password |-> Hash(<<"q">>)]}

InitExp ==
    /\ users = Registered
    /\ expenses = {}
    /\ session = [s \in Sessions |-> NoUser]
    /\ clock = 0
    /\ req = NoRequest
    /\ resp = NoResponse
    /\ loginHist = [s \in Sessions |-> FALSE]
    /\ signedUp = {<<<<"a">>, <<"p">>>>, <<<<"b">>, <<"q">>>>}

NextExp ==
    \/ \E s \in Sessions, f \in LoginForms : LoginPost(s, f)
    \/ \E s \in Sessions : Logout(s)
    \/ \E s \in Sessions, f \in ExpenseForms :
          Room(MaxExpenses, s, f) /\ DashboardPost(s, f)
    \/ \E s \in Sessions : DashboardGet(s)
    \/ \E s \in Sessions, id \in 1..(MaxExpenses + 1) : DeleteExpense(s, id)
    \/ \E s \in Sessions : ChartData(s)

\* The expenses of two registered users, on one day.
SpecExp == InitExp /\ [][NextExp]_vars

NextDate ==
    \/ \E s \in Sessions, f \in LoginForms : LoginPost(s, f)
    \/ \E s \in Sessions, f \in DateForms :
          Room(MaxExpensesDate, s, f) /\ DashboardPost(s, f)
    \/ \E s \in Sessions : DashboardGet(s)
    \/ \E s \in Sessions, id \in 1..(MaxExpensesDate + 1) : DeleteExpense(s, id)
    \/ Tick

\* The dates of the expenses of two registered users, as days pass.
SpecDate == InitExp /\ [][NextDate]_vars

NextSum ==
    \/ \E s \in Sessions, f \in LoginForms : LoginPost(s, f)
    \/ \E s \in Sessions, f \in SumForms :
          Room(MaxExpensesSum, s, f) /\ DashboardPost(s, f)
    \/ \E s \in Sessions : DashboardGet(s)
    \/ \E s \in Sessions, id \in 1..MaxExpensesSum : DeleteExpense(s, id)
    \/ \E s \in Sessions : ChartData(s)

\* The sums over the expenses of two registered users.
SpecSum == InitExp /\ [][NextSum]_vars

(* ------------------------------- claims ------------------------------- *)

UserIds == {u.id : u \in users}

Jan31 == [y |-> 2024, m |-> 1, d |-> 31]

Feb1 == [y |-> 2024, m |-> 2, d |-> 1]

\* The step is a request (the only other step is a tick of the clock).
RequestStep == clock' = clock

\* The step is a POST /signup whose stripped username is that of a stored user.
DuplicateSignup ==
    /\ RequestStep
    /\ req'.op = "signup" /\ req'.method = "POST"
    /\ \E u \in users : u.username = Strip(req'.form.username)

\* C1 as stated: a signup POST whose stripped username is that of a stored
\* user always ends in 'Username already exists' and leaves the user table
\* as it was.
C1_DuplicateAlwaysReported ==
    [][DuplicateSignup
       => /\ resp'.flash = "Username already exists"
          /\ users' = users]_vars

\* C1 amended: a signup POST whose stripped username is that of a stored user
\* never changes the user table and is redirected back to the signup page;
\* it reports 'Username already exists' when its password is not empty and
\* 'Fill all fields' when its password is empty.
C1_DuplicateRejected ==
    [][DuplicateSignup
       => /\ users' = users
          /\ resp'.status = 302 /\ resp'.target = "signup"
          /\ resp'.flash = IF req'.form.password = <<>> THEN "Fill all fields"
                           ELSE "Username already exists"]_vars

C1_Witness ==
    /\ req.op = "signup" /\ req.method = "POST"
    /\ \E u \in users : u.username = Strip(req.form.username)
    /\ resp.flash = "Username already exists"

\* C7: a signup POST whose username is empty after stripping, or whose
\* password is empty, ends in 'Fill all fields' and leaves the user table
\* as it was.
C7_EmptySignupRejected ==
    [][(/\ RequestStep
        /\ req'.op = "signup" /\ req'.method = "POST"
        /\ \/ req'.form.username \in {<<>>, <<" ">>}
           \/ req'.form.password = <<>>)
       => /\ users' = users
          /\ resp' = Redirect("signup", "POST", "signup", "Fill all fields")]_vars

C7_Witness ==
    /\ req.op = "signup" /\ req.method = "POST"
    /\ req.form.username = <<" ">> /\ req.form.password # <<>>
    /\ resp.flash = "Fill all fields"

\* C5: once a signup with username n and password p has succeeded, a login
\* POST with n and p authenticates the session as that user and redirects to
\* the dashboard, and a login POST with n and another password answers
\* 'Invalid credentials' and leaves the session as it was.
C5_LoginAfterSignup ==
    [][(/\ RequestStep
        /\ req'.op = "login" /\ req'.method = "POST"
        /\ \E p \in PasswordInputs : <<Strip(req'.form.username), p>> \in signedUp)
       => IF <<Strip(req'.form.username), req'.form.password>> \in signedUp
          THEN /\ \E u \in users : /\ u.username = Strip(req'.form.username)
                                   /\ session'[req'.sid] = u.id
               /\ \A s \in Sessions \ {req'.sid} : session'[s] = session[s]
               /\ resp'.status = 302 /\ resp'.target = "dashboard"
          ELSE /\ resp'.flash = "Invalid credentials"
               /\ session' = session]_vars

C5_Witness ==
    /\ req.op = "login" /\ req.method = "POST"
    /\ <<Strip(req.form.username), req.form.password>> \in signedUp
    /\ resp.target = "dashboard"
    /\ session[req.sid] # NoUser

\* The step is a request to an endpoint behind @login_required.
GuardedRequest ==
    /\ RequestStep
    /\ req'.op \in {"dashboard", "delete", "chart_data", "logout"}

SessionMatchesHistory == \A s \in Sessions : IsAuthenticated(s) <=> loginHist[s]

\* C6: a session is authenticated exactly when it has logged in and not
\* logged out since; a request to /dashboard, /delete/<id>, /chart-data or
\* /logout by a session that is not authenticated is redirected to the login
\* page and changes neither table nor any session.
C6_GuardRedirects ==
    [][/\ SessionMatchesHistory /\ SessionMatchesHistory'
       /\ (GuardedRequest /\ ~loginHist[req'.sid])
          => /\ resp'.status = 302 /\ resp'.target = "login"
             /\ users' = users /\ expenses' = expenses
             /\ session' = session]_vars

C6_Witness ==
    /\ req.op = "delete" /\ resp.target = "login"
    /\ expenses # {}
    /\ ~loginHist[req.sid]

\* C2: a delete of an existing expense by an authenticated user who does not
\* own it ends in 'Not allowed' with a redirect to the dashboard and leaves
\* the expense table as it was.
C2_ForeignDeleteForbidden ==
    [][(/\ RequestStep
        /\ req'.op = "delete"
        /\ IsAuthenticated(req'.sid)
        /\ \E e \in expenses : e.id = req'.id /\ e.user_id # session[req'.sid])
       => /\ resp' = Redirect("delete", "POST", "dashboard", "Not allowed")
          /\ expenses' = expenses]_vars

C2_Witness ==
    /\ req.op = "delete" /\ resp.flash = "Not allowed"
    /\ \E e \in expenses : e.id = req.id /\ e.user_id # session[req.sid]

\* The step is a POST /dashboard by an authenticated session.
AddRequest ==
    /\ RequestStep
    /\ req'.op = "dashboard" /\ req'.method = "POST"
    /\ IsAuthenticated(req'.sid)

\* The forms whose title, category and amount the handler accepts.
AcceptedFields(f) ==
    /\ f.title = <<"t">>
    /\ f.category \in {<<"F">>, <<"T", " ">>}
    /\ f.amount \in {<<"8">>, <<" ", "8">>}

\* The date an accepted form is to be stored with.
ExpectedDate(f) == IF f.date \in {IsoJan31, ShortJan31} THEN Jan31 ELSE Today

\* C9: an add-expense request whose title, category and amount are valid is
\* never refused for its date: it inserts one expense, dated as submitted
\* when the date parses as YYYY-MM-DD and dated today when it does not.
C9_DateFallsBackToToday ==
    [][(AddRequest /\ AcceptedFields(req'.form))
       => /\ resp'.flash = "Expense added"
          /\ \E e \in expenses' :
                /\ e \notin expenses
                /\ expenses' = expenses \cup {e}
                /\ e.date = ExpectedDate(req'.form)]_vars

C9_Witness ==
    /\ clock = 1
    /\ req.op = "dashboard" /\ req.method = "POST" /\ req.form.date = Feb30
    /\ resp.flash = "Expense added"
    /\ \E e \in expenses : e.date = Feb1
    /\ \E e \in expenses : e.date = Jan31

\* C10: a request by a session authenticated as user u leaves every other
\* user's expenses, and with them that user's expense lists, total, category
\* summary and monthly summary, as they were, and every expense it inserts
\* is owned by u.  (The lists and summaries are functions of the table, so
\* they are compared on the steps that change the table.)
C10_OnlyOwnRows ==
    [][(/\ RequestStep
        /\ req'.op \in {"dashboard", "delete", "chart_data"}
        /\ IsAuthenticated(req'.sid))
       => /\ \A v \in UserIds \ {session[req'.sid]} :
                /\ ExpensesOf(v)' = ExpensesOf(v)
                /\ expenses' # expenses
                   => /\ ExpenseLists(v)' = ExpenseLists(v)
                      /\ TotalFor(v)' = TotalFor(v)
                      /\ CategorySummary(v)' = CategorySummary(v)
                      /\ MonthlySummary(v)' = MonthlySummary(v)
          /\ \A e \in expenses' \ expenses : e.user_id = session[req'.sid]]_vars

C10_Witness ==
    /\ session["s1"] # NoUser /\ session["s2"] # NoUser
    /\ session["s1"] # session["s2"]
    /\ ExpensesOf(session["s1"]) # {} /\ ExpensesOf(session["s2"]) # {}
    /\ req.op = "dashboard" /\ resp.flash = "Expense added"

\* C8 as stated: an add-expense request by an authenticated user whose title
\* or category is empty after stripping, whose amount is empty, or whose
\* amount float() rejects, is answered with a flash message and a redirect to
\* the dashboard and changes no table; every other add-expense request
\* inserts exactly one expense, owned by the requesting user.
C8_AddValidates ==
    [][AddRequest
       => IF \/ req'.form.title \in {<<>>, <<" ">>}
             \/ req'.form.category = <<>>
             \/ req'.form.amount \in {<<>>, <<"x">>}
          THEN /\ resp'.status = 302 /\ resp'.target = "dashboard"
               /\ resp'.flash \in {"Please fill required fields", "Invalid amount"}
               /\ expenses' = expenses
               /\ \A u \in UserIds : TotalFor(u)' = TotalFor(u)
          ELSE \E e \in expenses' :
                  /\ e \notin expenses
                  /\ expenses' = expenses \cup {e}
                  /\ e.user_id = session[req'.sid]]_vars

\* The step is the delete of expense e by the authenticated user who owns it.
OwnDelete(e) ==
    /\ RequestStep
    /\ req'.op = "delete" /\ req'.id = e.id
    /\ IsAuthenticated(req'.sid)
    /\ e.user_id = session[req'.sid]

\* C3 as stated: a user's total is 0 when the user has no expense, and a
\* delete of expense e by its owner removes e and lowers the owner's total
\* by exactly e.amount.
C3_DeleteLowersTotalByAmount ==
    [][/\ RequestStep => \A u \in UserIds : ExpensesOf(u)' = {} => TotalFor(u)' = 0
       /\ \A e \in expenses :
             OwnDelete(e)
             => /\ expenses' = expenses \ {e}
                /\ TotalFor(e.user_id)' = TotalFor(e.user_id) - e.amount]_vars

ExactSum[amounts \in Seq(Int)] ==
    IF amounts = <<>> THEN 0
    ELSE ExactSum[SubSeq(amounts, 1, Len(amounts) - 1)] + amounts[Len(amounts)]

\* What adding up the per-category sums of a user can give: their exact sum,
\* or their float sum taken in any order.
CategorySumsAddedUp(uid) ==
    LET orders == Arrangements(CategorySummary(uid))
    IN  UNION {LET sums == [i \in 1..Len(f) |-> f[i][2]]
               IN  {ExactSum[sums], FloatSum[sums]} : f \in orders}

\* C4 as stated: for every user, the per-category sums added up over all
\* categories equal the user's total.
C4_CategorySumsEqualTotal ==
    \A u \in UserIds : TotalFor(u) \in CategorySumsAddedUp(u)

====
